---- MODULE Spec2Model ----
(***************************************************************************)
(* News dashboard: the fetch pipeline of utils.py (fetch_news behind       *)
(* st.cache_data(ttl=1800)), its sentiment scorer (analyze_sentiment_vader *)
(* on the analyzer kept by st.cache_resource), and the script run of       *)
(* app.py: banners, the article loop and the sentiment distribution; and   *)
(* of the NewsIntel prototype (src/newsintel) AnalysisResult.add_insight,  *)
(* search_news, batch_scrape and render_sidebar.                           *)
(*                                                                         *)
(* A message string is modelled by what it is built from: the literal     *)
(* text is named by `kind`, an interpolated status code by `code`, the    *)
(* interpolated strings by `a` and `b`.                                    *)
(***************************************************************************)
EXTENDS Integers, Sequences, FiniteSets, TLC

VARIABLES
    NEWSAPI_KEY,  \* config.py: os.getenv("NEWSAPI_KEY"), fixed at import
    now,          \* wall clock, seconds
    cache,        \* st.cache_data store of fetch_news: key -> entry
    computed,     \* history: per argument tuple, the last run of the function body
    call,         \* the latest fetch_news invocation
    ret,          \* what that invocation returned: (articles, errors)
    ui,           \* what the latest step rendered on the dashboard
    lexicon,      \* whether SentimentIntensityAnalyzer() can load its lexicon
    analyzer,     \* st.cache_resource store of get_sentiment_analyzer
    scored,       \* the latest direct analyze_sentiment_vader invocation
    formatted,    \* the latest direct format_datetime invocation
    run,          \* the widget values of the latest run of app.py
    result,       \* newsintel: an AnalysisResult object
    insightCall,  \* newsintel: the latest add_insight call on it
    found,        \* newsintel: the latest search_news call
    scraped,      \* newsintel: the latest batch_scrape call
    selected_topic,  \* newsintel: st.session_state["selected_topic"]
    sidebar       \* newsintel: the latest render_sidebar call

(* The state of the NewsIntel prototype (src/newsintel). *)
intel == <<result, insightCall, found, scraped, selected_topic, sidebar>>

(* The state of the dashboard (app.py, utils.py, config.py). *)
dash == <<NEWSAPI_KEY, now, cache, computed, call, ret, ui, lexicon, analyzer,
          scored, formatted, run>>

vars == <<NEWSAPI_KEY, now, cache, computed, call, ret, ui, lexicon, analyzer, scored,
          formatted, run, result, insightCall, found, scraped, selected_topic, sidebar>>

----------------------------------------------------------------------------
(* Bounds of the model *)

MaxArticles == 2      \* longest articles array the upstream answers with
TickStep == 900       \* seconds by which the clock advances in one step
MaxTime == 3600       \* the clock stops advancing here
MaxPieces == 3        \* longest date string, in pieces
MaxInsights == 3      \* add_insight calls on one AnalysisResult
MaxUrls == 3          \* longest urls list handed to batch_scrape

(* Program constants *)

TTL == 1800           \* utils.py: @st.cache_data(ttl=1800)
API_MAX_PAGE_SIZE == 100   \* utils.py: min(page_size, 100)

(* Compound scores are counted in hundredths: 0.05 is 5, 1.0 is 100.       *)
SENTIMENT_THRESHOLD_POSITIVE == 5     \* config.py: 0.05
SENTIMENT_THRESHOLD_NEGATIVE == -5    \* config.py: -0.05

----------------------------------------------------------------------------
(* Inputs *)

Topics == {"ai"}
Languages == {"en"}
PageSizes == {10, 500}
SortBys == {"relevancy"}
KeyValues == {"None", "", "k"}    \* unset, set but empty, set

Keys == Topics \X Languages \X PageSizes \X SortBys

(* A Python value passed where a text is expected. `kind` is "None", "int" *)
(* (a value that is no string), "empty", "blank" (whitespace only) or       *)
(* "words"; for words, `compound` is the compound score VADER's lexicon     *)
(* gives the text and `faulty` says that polarity_scores raises on it.      *)
Text(kind, compound, faulty) ==
    [kind |-> kind, compound |-> compound, faulty |-> faulty]

PyNone == Text("None", 0, FALSE)
PyInt == Text("int", 0, FALSE)
EmptyStr == Text("empty", 0, FALSE)
BlankStr == Text("blank", 0, FALSE)
Words(c) == Text("words", c, FALSE)
Poison == Text("words", 0, TRUE)

(* A string that matters for its 'T' characters is the sequence of its     *)
(* pieces: each piece is the character "T" or a run of other characters.   *)
PyStr(pieces) == [kind |-> "str", pieces |-> pieces]
NoneValue == [kind |-> "None", pieces |-> <<>>]
IntValue == [kind |-> "int", pieces |-> <<>>]     \* a truthy value that is no string
ZeroValue == [kind |-> "zero", pieces |-> <<>>]   \* a falsy value that is no string

IsoDate == PyStr(<<"2024-01-15", "T", "10:30:00Z">>)

Article(title, description, source, publishedAt) ==
    [title |-> title, description |-> description, source |-> source,
     publishedAt |-> publishedAt]

(* `source` is the name inside the source object, "<missing>" when the     *)
(* article has no source key, "None" when the key holds null.              *)
ArticlePool ==
    { Article("t1", Words(59), "BBC", IsoDate),
      Article("t2", EmptyStr, "<missing>", NoneValue) }

RECURSIVE SeqsUpTo(_, _)
SeqsUpTo(S, n) ==
    IF n = 0 THEN {<<>>}
    ELSE LET shorter == SeqsUpTo(S, n - 1)
         IN shorter \cup {Append(s, x) : s \in shorter, x \in S}

ArticleLists == SeqsUpTo(ArticlePool, MaxArticles)

(* The parsed or unparsable body of an HTTP 200 answer.                    *)
(*   kind "notjson": response.json() raises a decode error of class derr:  *)
(*       "json.JSONDecodeError"       the standard library's class (also   *)
(*                                    requests' own subclass of it)        *)
(*       "requests.JSONDecodeError"   requests' class built on simplejson  *)
(*       "simplejson.JSONDecodeError" simplejson's class, older requests   *)
(*   kind "list":    valid JSON that is not an object                      *)
(*   kind "object":  a JSON object with the keys shown                     *)
Body(kind, derr, status, articles, code, message) ==
    [kind |-> kind, derr |-> derr, status |-> status, articles |-> articles,
     code |-> code, message |-> message]

NoBody == Body("none", "", "", <<>>, "", "")

Bodies200 ==
    {Body("notjson", d, "", <<>>, "", "") :
        d \in {"json.JSONDecodeError", "requests.JSONDecodeError",
                "simplejson.JSONDecodeError"}}
    \cup {Body("list", "", "", <<>>, "", "")}
    \cup {Body("object", "", "ok", as, "", "") : as \in ArticleLists}
    \cup {Body("object", "", "error", <<>>, c, m) :
            c \in {"apiKeyInvalid", "None"}, m \in {"bad key"}}

StatusCodes == {200, 204, 400, 401, 404, 429, 500, 503}

Reason(status) ==
    CASE status = 204 -> "No Content"
      [] status = 404 -> "Not Found"
      [] OTHER -> "reason"

(* What requests.get does: raise exc, or answer with status and body.      *)
Upstream(exc, status, body) == [exc |-> exc, status |-> status, body |-> body]

Outcomes ==
    {Upstream(e, 0, NoBody) :
        e \in {"Timeout", "ConnectionError", "RequestException", "Exception"}}
    \cup {Upstream("none", s, NoBody) : s \in StatusCodes \ {200}}
    \cup {Upstream("none", 200, b) : b \in Bodies200}

----------------------------------------------------------------------------
(* Messages *)

Msg(kind, code, a, b) == [kind |-> kind, code |-> code, a |-> a, b |-> b]

(* Mutant of Truthy: tests `is None` only, so an empty key counts as set.  *)
TruthyNotNone(s) == s # "None"

(* `not NEWSAPI_KEY`, utils.py 37: None and the empty string are falsy.    *)
Truthy(s) == s # "None" /\ s # ""

Min(a, b) == IF a <= b THEN a ELSE b

----------------------------------------------------------------------------
(* fetch_news: the function body, utils.py 32-88 *)

Result(articles, errors) == [articles |-> articles, errors |-> errors]

NoResult == Result(<<>>, <<>>)

NoParams == [q |-> "", apiKey |-> "", pageSize |-> 0, sortBy |-> "", language |-> ""]

(* Mutant of params: the page size is sent as requested, unclamped.       *)
paramsUnclamped(topic, language, page_size, sort_by) ==
    [q |-> topic, apiKey |-> NEWSAPI_KEY, pageSize |-> page_size,
     sortBy |-> sort_by, language |-> language]

params(topic, language, page_size, sort_by) ==
    [q |-> topic, apiKey |-> NEWSAPI_KEY,
     pageSize |-> Min(page_size, API_MAX_PAGE_SIZE),
     sortBy |-> sort_by, language |-> language]

(* The classes an exception is an instance of. *)
Ancestors(exc) ==
    CASE exc = "Timeout" -> {"Timeout", "RequestException", "Exception"}
      [] exc = "ConnectionError" -> {"ConnectionError", "RequestException", "Exception"}
      [] exc = "RequestException" -> {"RequestException", "Exception"}
      [] exc = "requests.JSONDecodeError" ->
            {"requests.JSONDecodeError", "RequestException", "Exception"}
      [] exc = "json.JSONDecodeError" -> {"json.JSONDecodeError", "Exception"}
      [] OTHER -> {exc, "Exception"}

(* Mutant of Parse200: the 'no news' message is appended whether or not   *)
(* articles is empty.                                                      *)
Parse200AlwaysInfo(topic, language, body) ==
    IF body.kind = "notjson" THEN
        IF "json.JSONDecodeError" \in Ancestors(body.derr)
        THEN [articles |-> <<>>, errors |-> <<Msg("NotJson", 0, "", "")>>, exc |-> "none"]
        ELSE [articles |-> <<>>, errors |-> <<>>, exc |-> body.derr]
    ELSE IF body.kind # "object" THEN
        [articles |-> <<>>, errors |-> <<>>, exc |-> "AttributeError"]
    ELSE IF body.status = "ok" THEN
        [articles |-> body.articles,
         errors |-> <<Msg("NoNewsFoundInfo", 0, topic, language)>>,
         exc |-> "none"]
    ELSE
        [articles |-> <<>>,
         errors |-> <<Msg("NewsApiError", 0, body.code, body.message)>>,
         exc |-> "none"]

(* Mutant of Parse200: the API error message carries the message only.    *)
Parse200NoCode(topic, language, body) ==
    IF body.kind = "notjson" THEN
        IF "json.JSONDecodeError" \in Ancestors(body.derr)
        THEN [articles |-> <<>>, errors |-> <<Msg("NotJson", 0, "", "")>>, exc |-> "none"]
        ELSE [articles |-> <<>>, errors |-> <<>>, exc |-> body.derr]
    ELSE IF body.kind # "object" THEN
        [articles |-> <<>>, errors |-> <<>>, exc |-> "AttributeError"]
    ELSE IF body.status = "ok" THEN
        [articles |-> body.articles,
         errors |-> IF body.articles = <<>>
                    THEN <<Msg("NoNewsFoundInfo", 0, topic, language)>>
                    ELSE <<>>,
         exc |-> "none"]
    ELSE
        [articles |-> <<>>,
         errors |-> <<Msg("NewsApiError", 0, "", body.message)>>,
         exc |-> "none"]

(* Mutant of Parse200: the articles are returned in reverse order.        *)
Parse200Reversed(topic, language, body) ==
    IF body.kind = "notjson" THEN
        IF "json.JSONDecodeError" \in Ancestors(body.derr)
        THEN [articles |-> <<>>, errors |-> <<Msg("NotJson", 0, "", "")>>, exc |-> "none"]
        ELSE [articles |-> <<>>, errors |-> <<>>, exc |-> body.derr]
    ELSE IF body.kind # "object" THEN
        [articles |-> <<>>, errors |-> <<>>, exc |-> "AttributeError"]
    ELSE IF body.status = "ok" THEN
        [articles |-> [i \in 1..Len(body.articles) |->
                          body.articles[Len(body.articles) + 1 - i]],
         errors |-> IF body.articles = <<>>
                    THEN <<Msg("NoNewsFoundInfo", 0, topic, language)>>
                    ELSE <<>>,
         exc |-> "none"]
    ELSE
        [articles |-> <<>>,
         errors |-> <<Msg("NewsApiError", 0, body.code, body.message)>>,
         exc |-> "none"]

(* Lines 55-65: the body of an HTTP 200 answer. `exc` is the exception     *)
(* that leaves the inner try statement, "none" when none does.             *)
Parse200(topic, language, body) ==
    IF body.kind = "notjson" THEN
        IF "json.JSONDecodeError" \in Ancestors(body.derr)
        THEN [articles |-> <<>>, errors |-> <<Msg("NotJson", 0, "", "")>>, exc |-> "none"]
        ELSE [articles |-> <<>>, errors |-> <<>>, exc |-> body.derr]
    ELSE IF body.kind # "object" THEN
        \* data.get on a value that is no dict
        [articles |-> <<>>, errors |-> <<>>, exc |-> "AttributeError"]
    ELSE IF body.status = "ok" THEN
        [articles |-> body.articles,
         errors |-> IF body.articles = <<>>
                    THEN <<Msg("NoNewsFoundInfo", 0, topic, language)>>
                    ELSE <<>>,
         exc |-> "none"]
    ELSE
        [articles |-> <<>>,
         errors |-> <<Msg("NewsApiError", 0, body.code, body.message)>>,
         exc |-> "none"]

(* Mutant of StatusMessage: the server-error class starts above 500.      *)
StatusMessageAbove500(status) ==
    IF status = 400 THEN Msg("Api400_InvalidRequestParameters", 0, "", "")
    ELSE IF status = 401 THEN Msg("Api401_InvalidApiKey", 0, "", "")
    ELSE IF status = 429 THEN Msg("Api429_TooManyRequests", 0, "", "")
    ELSE IF status > 500 THEN Msg("ApiServerError", status, "", "")
    ELSE Msg("HttpError", status, Reason(status), "")

(* Lines 66-77: the message of a status code other than 200. *)
StatusMessage(status) ==
    IF status = 400 THEN Msg("Api400_InvalidRequestParameters", 0, "", "")
    ELSE IF status = 401 THEN Msg("Api401_InvalidApiKey", 0, "", "")
    ELSE IF status = 429 THEN Msg("Api429_TooManyRequests", 0, "", "")
    ELSE IF status >= 500 THEN Msg("ApiServerError", status, "", "")
    ELSE Msg("HttpError", status, Reason(status), "")

(* Mutant of TryBlock: a status other than 200 also raises, as            *)
(* response.raise_for_status() would.                                      *)
TryBlockRaiseForStatus(topic, language, up) ==
    IF up.exc # "none" THEN [articles |-> <<>>, errors |-> <<>>, exc |-> up.exc]
    ELSE IF up.status = 200 THEN Parse200(topic, language, up.body)
    ELSE [articles |-> <<>>, errors |-> <<StatusMessage(up.status)>>,
          exc |-> "RequestException"]

(* Lines 50-77: the try block. *)
TryBlock(topic, language, up) ==
    IF up.exc # "none" THEN [articles |-> <<>>, errors |-> <<>>, exc |-> up.exc]
    ELSE IF up.status = 200 THEN Parse200(topic, language, up.body)
    ELSE [articles |-> <<>>, errors |-> <<StatusMessage(up.status)>>, exc |-> "none"]

(* Mutant of ExceptClause: the chain ends at RequestException, without    *)
(* the catch-all clause.                                                   *)
ExceptClauseNoCatchAll(exc) ==
    IF "Timeout" \in Ancestors(exc) THEN "Timeout"
    ELSE IF "ConnectionError" \in Ancestors(exc) THEN "ConnectionError"
    ELSE IF "RequestException" \in Ancestors(exc) THEN "RequestException"
    ELSE "uncaught"

(* Lines 79-86: the except clause that handles exc, "uncaught" if none.    *)
ExceptClause(exc) ==
    IF "Timeout" \in Ancestors(exc) THEN "Timeout"
    ELSE IF "ConnectionError" \in Ancestors(exc) THEN "ConnectionError"
    ELSE IF "RequestException" \in Ancestors(exc) THEN "RequestException"
    ELSE IF "Exception" \in Ancestors(exc) THEN "Exception"
    ELSE "uncaught"

HandlerMessage(clause, exc) ==
    CASE clause = "Timeout" -> Msg("Timeout", 0, "", "")
      [] clause = "ConnectionError" -> Msg("ConnectionFailed", 0, "", "")
      [] clause = "RequestException" -> Msg("NetworkError", 0, exc, "")
      [] OTHER -> Msg("UnexpectedError", 0, exc, "")

(* Mutant of FetchNewsBody: a request that raised is issued once more.    *)
FetchNewsBodyRetry(topic, language, page_size, sort_by, up) ==
    IF ~Truthy(NEWSAPI_KEY) THEN
        [value |-> Result(<<>>, <<Msg("ConfigError_NoApiKey", 0, "", "")>>),
         raised |-> "none", requests |-> 0, sent |-> NoParams]
    ELSE
        LET t == TryBlock(topic, language, up)
            clause == ExceptClause(t.exc)
            sent == params(topic, language, page_size, sort_by)
        IN  IF t.exc = "none" THEN
                [value |-> Result(t.articles, t.errors),
                 raised |-> "none", requests |-> 1, sent |-> sent]
            ELSE IF clause = "uncaught" THEN
                [value |-> NoResult, raised |-> t.exc, requests |-> 2, sent |-> sent]
            ELSE
                [value |-> Result(t.articles,
                                  Append(t.errors, HandlerMessage(clause, t.exc))),
                 raised |-> "none", requests |-> 2, sent |-> sent]

(* The whole body: value returned, exception raised ("none" if it         *)
(* returns), number of HTTP requests issued and the parameters sent.       *)
FetchNewsBody(topic, language, page_size, sort_by, up) ==
    IF ~Truthy(NEWSAPI_KEY) THEN
        [value |-> Result(<<>>, <<Msg("ConfigError_NoApiKey", 0, "", "")>>),
         raised |-> "none", requests |-> 0, sent |-> NoParams]
    ELSE
        LET t == TryBlock(topic, language, up)
            clause == ExceptClause(t.exc)
            sent == params(topic, language, page_size, sort_by)
        IN  IF t.exc = "none" THEN
                [value |-> Result(t.articles, t.errors),
                 raised |-> "none", requests |-> 1, sent |-> sent]
            ELSE IF clause = "uncaught" THEN
                [value |-> NoResult, raised |-> t.exc, requests |-> 1, sent |-> sent]
            ELSE
                [value |-> Result(t.articles,
                                  Append(t.errors, HandlerMessage(clause, t.exc))),
                 raised |-> "none", requests |-> 1, sent |-> sent]

----------------------------------------------------------------------------
(* fetch_news behind @st.cache_data(ttl=1800), utils.py 31 *)

NoEntry == [value |-> NoResult, storedAt |-> -1, requests |-> 0]

(* The cache keys an entry by the function's arguments, all four of them.  *)
CacheKey(topic, language, page_size, sort_by) ==
    <<topic, language, page_size, sort_by>>

(* Mutant of Serves: the function is not memoized, no entry is served.    *)
ServesNever(entry, t) == {FALSE}

(* Mutant of Serves: an entry never expires.                               *)
ServesForever(entry, t) ==
    IF entry.storedAt < 0 THEN {FALSE} ELSE {TRUE}

(* Whether the lookup at time t serves the entry: yes while it is younger  *)
(* than ttl, no once it is older or when there is none; at an age of       *)
(* exactly ttl the cache may do either.                                    *)
Serves(entry, t) ==
    IF entry.storedAt < 0 THEN {FALSE}
    ELSE IF t - entry.storedAt < TTL THEN {TRUE}
    ELSE IF t - entry.storedAt = TTL THEN {TRUE, FALSE}
    ELSE {FALSE}

(* Mutant of Stores: a result that carries an error message is not kept.   *)
StoresSuccessOnly(r) == r.raised = "none" /\ r.value.errors = <<>>

(* The cache keeps whatever the function returns; nothing when it raises.  *)
Stores(r) == r.raised = "none"

NoCall ==
    [args |-> <<"", "", 0, "">>, hit |-> FALSE, requests |-> 0,
     sent |-> NoParams, raised |-> "none", since |-> -1, up |-> Upstream("none", 0, NoBody)]

(* The invocations fetch_news(topic, language, page_size, sort_by) can     *)
(* make at time `now`, the upstream answering with one of O: each gives    *)
(* the new values of ret, call, cache and computed. `since` is the time    *)
(* since the function body last ran for these arguments, -1 if it never    *)
(* did; `up` is the upstream's answer, when a request was made.            *)
Invocations(topic, language, page_size, sort_by, O) ==
    LET key == CacheKey(topic, language, page_size, sort_by)
        args == <<topic, language, page_size, sort_by>>
        entry == cache[key]
        last == computed[args]
        since == IF last.storedAt >= 0 THEN now - last.storedAt ELSE -1
        Hit == [ret |-> entry.value,
                call |-> [args |-> args, hit |-> TRUE, requests |-> 0,
                          sent |-> NoParams, raised |-> "none", since |-> since,
                          up |-> Upstream("none", 0, NoBody)],
                cache |-> cache, computed |-> computed]
        Miss(up) ==
            LET r == FetchNewsBody(topic, language, page_size, sort_by, up)
                done == r.raised = "none"
                new == [value |-> r.value, storedAt |-> now, requests |-> r.requests]
            IN  [ret |-> r.value,
                 call |-> [args |-> args, hit |-> FALSE, requests |-> r.requests,
                           sent |-> r.sent, raised |-> r.raised, since |-> since,
                           up |-> IF r.requests > 0 THEN up
                                  ELSE Upstream("none", 0, NoBody)],
                 cache |-> IF Stores(r) THEN [cache EXCEPT ![key] = new] ELSE cache,
                 computed |-> IF done THEN [computed EXCEPT ![args] = new]
                              ELSE computed]
    IN  (IF TRUE \in Serves(entry, now) THEN {Hit} ELSE {})
        \cup (IF FALSE \in Serves(entry, now) THEN {Miss(up) : up \in O} ELSE {})

----------------------------------------------------------------------------
(* get_sentiment_analyzer behind @st.cache_resource, utils.py 91-94 *)

(* `constructions` counts the analyzers constructed so far and `id` names  *)
(* the stored one (0: none stored).                                        *)
NoAnalyzer == [id |-> 0, constructions |-> 0]

(* Mutant of get_sentiment_analyzer: not memoized, every call constructs.  *)
get_sentiment_analyzer_uncached(an) ==
    IF lexicon
    THEN [an |-> [id |-> an.constructions + 1, constructions |-> an.constructions + 1],
          raised |-> "none", constructed |-> TRUE]
    ELSE [an |-> an, raised |-> "LookupError", constructed |-> FALSE]

(* The stored analyzer is returned when there is one; otherwise            *)
(* SentimentIntensityAnalyzer() runs, and its result is stored unless it   *)
(* raises (it raises LookupError when the lexicon cannot be loaded).       *)
get_sentiment_analyzer(an) ==
    IF an.id # 0 THEN [an |-> an, raised |-> "none", constructed |-> FALSE]
    ELSE IF lexicon
    THEN [an |-> [id |-> an.constructions + 1, constructions |-> an.constructions + 1],
          raised |-> "none", constructed |-> TRUE]
    ELSE [an |-> an, raised |-> "LookupError", constructed |-> FALSE]

----------------------------------------------------------------------------
(* analyze_sentiment_vader, utils.py 96-118 *)

(* The labels are the strings "Olumlu", "Olumsuz" and "Nötr" (written      *)
(* Notr here).                                                             *)
Labels == {"Olumlu", "Olumsuz", "Notr"}

(* Mutant of Label: the thresholds are exclusive.                          *)
LabelExclusive(compound_score) ==
    IF compound_score > SENTIMENT_THRESHOLD_POSITIVE THEN "Olumlu"
    ELSE IF compound_score < SENTIMENT_THRESHOLD_NEGATIVE THEN "Olumsuz"
    ELSE "Notr"

(* Lines 109-114. *)
Label(compound_score) ==
    IF compound_score >= SENTIMENT_THRESHOLD_POSITIVE THEN "Olumlu"
    ELSE IF compound_score <= SENTIMENT_THRESHOLD_NEGATIVE THEN "Olumsuz"
    ELSE "Notr"

IsStr(v) == v.kind \in {"empty", "blank", "words"}

(* Line 101: not isinstance(text, str) or not text.strip() *)
NoText(text) == ~IsStr(text) \/ text.kind \in {"empty", "blank"}

Scored(text, label, score, raised, an, looked, constructed, invoked, instance, warned) ==
    [text |-> text, label |-> label, score |-> score, raised |-> raised,
     an |-> an, looked |-> looked, constructed |-> constructed,
     invoked |-> invoked, instance |-> instance, warned |-> warned]

(* Mutant of analyze_sentiment_vader: the analyzer is fetched before the   *)
(* input is looked at.                                                     *)
analyze_sentiment_vader_eager(text, an) ==
    LET g == get_sentiment_analyzer(an)
    IN  IF g.raised # "none" THEN
            Scored(text, "", 0, g.raised, g.an, TRUE, FALSE, FALSE, 0, FALSE)
        ELSE IF NoText(text) THEN
            Scored(text, "Notr", 0, "none", g.an, TRUE, g.constructed, FALSE, 0, FALSE)
        ELSE IF text.faulty THEN
            Scored(text, "Notr", 0, "none", g.an, TRUE, g.constructed, TRUE, g.an.id, TRUE)
        ELSE
            Scored(text, Label(text.compound), text.compound, "none", g.an,
                   TRUE, g.constructed, TRUE, g.an.id, FALSE)

(* The call's result and effects: the pair (label, score) returned, the    *)
(* exception raised ("none" when it returns), the analyzer store after     *)
(* the call, whether get_sentiment_analyzer was called (looked), whether   *)
(* an analyzer was constructed, whether polarity_scores was invoked and on *)
(* which instance, and whether st.warning was shown.                       *)
analyze_sentiment_vader(text, an) ==
    IF NoText(text) THEN                                            \* 101-102
        Scored(text, "Notr", 0, "none", an, FALSE, FALSE, FALSE, 0, FALSE)
    ELSE
        LET g == get_sentiment_analyzer(an)                         \* 104
        IN  IF g.raised # "none" THEN
                \* line 104 is outside the try statement
                Scored(text, "", 0, g.raised, g.an, TRUE, FALSE, FALSE, 0, FALSE)
            ELSE IF text.faulty THEN                                \* 115-118
                Scored(text, "Notr", 0, "none", g.an, TRUE, g.constructed,
                       TRUE, g.an.id, TRUE)
            ELSE                                                    \* 106-114
                Scored(text, Label(text.compound), text.compound, "none", g.an,
                       TRUE, g.constructed, TRUE, g.an.id, FALSE)

NoScored == Scored(PyNone, "", 0, "none", NoAnalyzer, FALSE, FALSE, FALSE, 0, FALSE)

----------------------------------------------------------------------------
(* format_datetime, utils.py 122-134 *)

(* The strings dateutil's isoparse accepts. *)
IsoParseable == {<<"2024-01-15", "T", "10:30:00Z">>, <<"2024-01-15">>}

(* dt_object.strftime("%d %B %Y, %H:%M") *)
Strftime(pieces) ==
    CASE pieces = <<"2024-01-15", "T", "10:30:00Z">> -> <<"15 January 2024, 10:30">>
      [] pieces = <<"2024-01-15">> -> <<"15 January 2024, 00:00">>
      [] OTHER -> <<"dd Month yyyy, hh:mm">>

(* Mutant of BeforeFirstT: the string is returned whole.                   *)
WholeString(pieces) == pieces

(* date_string.split('T')[0]: what precedes the first 'T'. *)
RECURSIVE BeforeFirstT(_)
BeforeFirstT(pieces) ==
    IF pieces = <<>> \/ Head(pieces) = "T" THEN <<>>
    ELSE <<Head(pieces)>> \o BeforeFirstT(Tail(pieces))

(* `not date_string`, line 124: None, "" and zero-like values are falsy.    *)
NoDate(date_string) ==
    \/ date_string.kind \in {"None", "zero"}
    \/ date_string.kind = "str" /\ date_string.pieces = <<>>

Formatted(value, raised, parsed) == [value |-> value, raised |-> raised, parsed |-> parsed]

(* The placeholder "Tarih Yok". *)
TarihYok == PyStr(<<"T", "arih Yok">>)

(* Mutant of format_datetime: the guard tests for None only.               *)
format_datetime_none_only(date_string) ==
    IF date_string.kind = "None"
    THEN Formatted(TarihYok, "none", FALSE)
    ELSE IF date_string.kind = "str" /\ date_string.pieces \in IsoParseable
    THEN Formatted(PyStr(Strftime(date_string.pieces)), "none", TRUE)
    ELSE IF date_string.kind = "str"
    THEN Formatted(PyStr(BeforeFirstT(date_string.pieces)), "none", TRUE)
    ELSE Formatted(NoneValue, "AttributeError", TRUE)

(* The value returned, the exception raised ("none" when it returns) and   *)
(* whether parser.isoparse was called.                                     *)
format_datetime(date_string) ==
    IF NoDate(date_string)
    THEN Formatted(TarihYok, "none", FALSE)                               \* 124-125
    ELSE IF date_string.kind = "str" /\ date_string.pieces \in IsoParseable
    THEN Formatted(PyStr(Strftime(date_string.pieces)), "none", TRUE)     \* 128-131
    ELSE IF date_string.kind = "str"
    THEN Formatted(PyStr(BeforeFirstT(date_string.pieces)), "none", TRUE) \* 132-134
    ELSE \* 134: isoparse raised, and a value that is no string has no split
         Formatted(NoneValue, "AttributeError", TRUE)

NoFormatted == [arg |-> NoneValue, called |-> FALSE, value |-> NoneValue,
                raised |-> "none", parsed |-> FALSE]

----------------------------------------------------------------------------
(* app.py: one run of the script *)

UiTopics == {"", "ai"}     \* st.text_input
SliderSizes == {10}        \* st.slider(min_value=5, max_value=50, step=5)

Blank == [fetched |-> FALSE, error |-> <<>>, info |-> <<>>, success |-> <<>>,
          exception |-> "none", cards |-> 0, sentiments |-> <<>>,
          sentiment_scores |-> <<>>, distShown |-> FALSE, counts |-> {},
          emojis |-> <<>>, colors |-> {}]

NoRun == [script |-> FALSE, search_button |-> FALSE, topic |-> ""]

(* Mutant of SearchGate: a topic is enough, clicked or not.                *)
SearchGateTopicOnly(search_button, topic) == topic # ""

(* Line 51: `if search_button and topic:` *)
SearchGate(search_button, topic) == search_button /\ topic # ""

(* Line 92: `if description:` *)
HasDescription(article) == article.description.kind \in {"int", "blank", "words"}

(* Mutant of InitialSentiments: the list outlives the run.                 *)
InitialSentimentsKept == ui.sentiments

(* Lines 65-67: the lists every run starts with. *)
InitialSentiments == <<>>

(* Line 102: the emoji shown next to the label. *)
Emoji(sentiment_label) ==
    IF sentiment_label = "Positive" THEN "slightly smiling face"
    ELSE IF sentiment_label = "Negative" THEN "angry face"
    ELSE "neutral face"

(* Lines 116-119: colors.get(x, '#888888') *)
ChartColor(x) ==
    CASE x = "Positive" -> "green"
      [] x = "Negative" -> "red"
      [] x = "Neutral" -> "grey"
      [] OTHER -> "#888888"

(* Lines 70-110: one pass of the loop body over `article`. `st` holds the  *)
(* two lists, the analyzer store, the number of article cards completed    *)
(* and the exception that ended the run ("none" while it goes on).         *)
LoopBody(article, st) ==
    IF article.source = "None" THEN
        \* 87: article.get('source', {}) is None, and None has no get
        [st EXCEPT !.exception = "AttributeError"]
    ELSE IF format_datetime(article.publishedAt).raised # "none" THEN   \* 88
        [st EXCEPT !.exception = format_datetime(article.publishedAt).raised]
    ELSE IF HasDescription(article) THEN                                 \* 92-103
        LET r == analyze_sentiment_vader(article.description, st.an)
        IN  IF r.raised # "none"
            THEN [st EXCEPT !.exception = r.raised, !.an = r.an]
            ELSE [st EXCEPT !.sentiments = Append(@, r.label),
                            !.sentiment_scores = Append(@, r.score),
                            !.emojis = Append(@, Emoji(r.label)),
                            !.an = r.an,
                            !.cards = @ + 1]
    ELSE [st EXCEPT !.cards = @ + 1]

RECURSIVE ArticleLoop(_, _)
ArticleLoop(articles, st) ==
    IF articles = <<>> \/ st.exception # "none" THEN st
    ELSE ArticleLoop(Tail(articles), LoopBody(Head(articles), st))

(* Line 114: pd.Series(sentiments).value_counts(), the labels that occur,  *)
(* each paired with the number of its occurrences.                         *)
ValueCounts(sentiments) ==
    { <<l, Cardinality({i \in DOMAIN sentiments : sentiments[i] = l})>> :
        l \in {sentiments[i] : i \in DOMAIN sentiments} }

(* Lines 52-127: what the run shows for the pair fetch_news returned, and  *)
(* the analyzer store it leaves.                                           *)
Render(topic, language, articles, errors, an) ==
    LET st == IF articles # <<>>
              THEN ArticleLoop(articles,
                               [sentiments |-> InitialSentiments,
                                sentiment_scores |-> <<>>, emojis |-> <<>>, an |-> an,
                                cards |-> 0, exception |-> "none"])
              ELSE [sentiments |-> <<>>, sentiment_scores |-> <<>>, emojis |-> <<>>,
                    an |-> an, cards |-> 0, exception |-> "none"]
        shown == st.exception = "none" /\ st.sentiments # <<>>          \* 112
    IN  [ui |->
            [fetched |-> TRUE,
             error |-> errors,                                   \* 56-58: st.error
             success |-> IF articles # <<>>
                         THEN <<Msg("Found", Len(articles), topic, "")>>   \* 62
                         ELSE <<>>,
             info |-> IF articles = <<>> /\ errors = <<>>
                      THEN <<Msg("NoNewsFound", 0, topic, language)>>      \* 126-127
                      ELSE <<>>,
             exception |-> st.exception,
             cards |-> st.cards,
             sentiments |-> st.sentiments,
             sentiment_scores |-> st.sentiment_scores,
             distShown |-> shown,
             counts |-> IF shown THEN ValueCounts(st.sentiments) ELSE {},
             emojis |-> st.emojis,
             colors |-> IF shown
                        THEN {<<c[1], ChartColor(c[1])>> : c \in ValueCounts(st.sentiments)}
                        ELSE {}],
         an |-> st.an]

----------------------------------------------------------------------------
(* newsintel/schemas.py: AnalysisResult, lines 108-145 *)

AnalysisResult(article_count, avg_sentiment, topics, insights, raw_articles, created_at) ==
    [article_count |-> article_count, avg_sentiment |-> avg_sentiment,
     topics |-> topics, insights |-> insights, raw_articles |-> raw_articles,
     created_at |-> created_at]

(* Mutant of add_insight: the insight is put in front.                     *)
add_insight_first(self, insight) ==
    [self EXCEPT !.insights = <<insight>> \o @]

(* Lines 126-132: self.insights.append(insight) *)
add_insight(self, insight) ==
    [self EXCEPT !.insights = Append(@, insight)]

NoInsight == [called |-> FALSE, arg |-> "", before |-> AnalysisResult(0, 0, <<>>, <<>>, <<>>, 0)]

----------------------------------------------------------------------------
(* newsintel/tools/search.py: search_news, lines 16-49 *)

NewsArticle(title, summary, url, source, tags, published_at) ==
    [title |-> title, summary |-> summary, url |-> url, source |-> source,
     tags |-> tags, published_at |-> published_at]

(* Lines 39-49: the placeholder list, whatever max_results and time_range. *)
search_news(query, max_results, time_range) ==
    << NewsArticle(<<"Sample article about ", query>>,
                   <<"This is a placeholder article about ", query, ".">>,
                   "None", "Placeholder Source", <<query>>, now) >>

NoFound == [called |-> FALSE, query |-> "", max_results |-> 0, time_range |-> "",
            articles |-> <<>>]

----------------------------------------------------------------------------
(* newsintel/tools/scraper.py: scrape_article 16-42, batch_scrape 71-88 *)

(* Whether pydantic's HttpUrl accepts the string. *)
IsHttpUrl(url) == url # "not a url"

(* scrape_article: the placeholder article for url; building it raises a   *)
(* validation error when url is no HTTP URL.                               *)
scrape_article(url) ==
    IF IsHttpUrl(url)
    THEN [article |-> NewsArticle("Sample Article Title", "This is the article excerpt...",
                                  url, "Extracted Source", <<>>, now),
          raised |-> "none"]
    ELSE [article |-> "None", raised |-> "ValidationError"]

(* urls[:n], Python's slice: the first n elements, and for a negative n    *)
(* all but the last -n.                                                    *)
SliceTo(urls, n) ==
    IF n >= 0 THEN SubSeq(urls, 1, Min(n, Len(urls)))
    ELSE SubSeq(urls, 1, Len(urls) + n)

(* Lines 83-87: the loop, from the articles gathered so far. *)
RECURSIVE ScrapeLoop(_, _)
ScrapeLoop(urls, articles) ==
    IF urls = <<>> THEN [articles |-> articles, raised |-> "none"]
    ELSE IF scrape_article(Head(urls)).raised # "none"
    THEN [articles |-> <<>>, raised |-> scrape_article(Head(urls)).raised]
    ELSE ScrapeLoop(Tail(urls), Append(articles, scrape_article(Head(urls)).article))

batch_scrape(urls, max_concurrent) == ScrapeLoop(SliceTo(urls, max_concurrent), <<>>)

NoScraped == [called |-> FALSE, urls |-> <<>>, max_concurrent |-> 0,
              articles |-> <<>>, raised |-> "none"]

----------------------------------------------------------------------------
(* newsintel/app.py: render_sidebar, lines 425-538 *)

SAMPLE_TOPICS ==
    << "artificial intelligence", "machine learning", "large language models",
       "robotics", "autonomous vehicles", "quantum computing" >>

Unset == "<unset>"     \* "selected_topic" not in st.session_state

NoSidebar == [called |-> FALSE, text |-> "", clicked |-> 0, topic |-> ""]

----------------------------------------------------------------------------
(* Actions *)

(* The prototype before any of its functions is called. *)
InitIntel ==
    /\ result = AnalysisResult(0, 0, <<>>, <<>>, <<>>, 0)
    /\ insightCall = NoInsight
    /\ found = NoFound
    /\ scraped = NoScraped
    /\ selected_topic = Unset
    /\ sidebar = NoSidebar

Init ==
    /\ NEWSAPI_KEY \in KeyValues
    /\ now = 0
    /\ cache = [k \in Keys |-> NoEntry]
    /\ computed = [k \in Keys |-> NoEntry]
    /\ call = NoCall
    /\ ret = NoResult
    /\ ui = Blank
    /\ lexicon \in BOOLEAN
    /\ analyzer = NoAnalyzer
    /\ scored = NoScored
    /\ formatted = NoFormatted
    /\ run = NoRun
    /\ InitIntel

(* A caller other than the dashboard invokes fetch_news; nothing is        *)
(* rendered.                                                               *)
CallFetchNews(topic, language, page_size, sort_by, O) ==
    \E r \in Invocations(topic, language, page_size, sort_by, O) :
        /\ ret' = r.ret
        /\ call' = r.call
        /\ cache' = r.cache
        /\ computed' = r.computed
        /\ ui' = Blank
        /\ run' = NoRun
        /\ UNCHANGED <<NEWSAPI_KEY, now, lexicon, analyzer, scored, formatted>>
        /\ UNCHANGED intel

(* The user acts on the dashboard and Streamlit reruns app.py. *)
AppRun(search_button, topic, language, page_size, sort_by, O) ==
    IF SearchGate(search_button, topic) THEN
        \E r \in Invocations(topic, language, page_size, sort_by, O) :
            /\ ret' = r.ret
            /\ call' = r.call
            /\ cache' = r.cache
            /\ computed' = r.computed
            /\ ui' = IF r.call.raised # "none"
                     THEN [Blank EXCEPT !.fetched = TRUE, !.exception = r.call.raised]
                     ELSE Render(topic, language, r.ret.articles, r.ret.errors, analyzer).ui
            /\ analyzer' = IF r.call.raised # "none" THEN analyzer
                           ELSE Render(topic, language, r.ret.articles, r.ret.errors, analyzer).an
            /\ run' = [script |-> TRUE, search_button |-> search_button, topic |-> topic]
            /\ UNCHANGED <<NEWSAPI_KEY, now, lexicon, scored, formatted>>
            /\ UNCHANGED intel
    ELSE
        /\ ui' = IF topic = ""
                 THEN [Blank EXCEPT !.info = <<Msg("PleaseEnterTopic", 0, "", "")>>]  \* 130-131
                 ELSE Blank
        /\ call' = NoCall
        /\ ret' = NoResult
        /\ run' = [script |-> TRUE, search_button |-> search_button, topic |-> topic]
        /\ UNCHANGED <<NEWSAPI_KEY, now, cache, computed, lexicon, analyzer, scored, formatted>>
        /\ UNCHANGED intel

Tick ==
    /\ now + TickStep <= MaxTime
    /\ now' = now + TickStep
    /\ UNCHANGED <<NEWSAPI_KEY, cache, computed, call, ret, ui, lexicon, analyzer, scored,
                   formatted, run>>
    /\ UNCHANGED intel

(* Every outcome of the upstream request, all calls within one instant.    *)
Next ==
    \/ \E t \in Topics, l \in Languages, p \in PageSizes, s \in SortBys :
            CallFetchNews(t, l, p, s, Outcomes)
    \/ \E b \in BOOLEAN, t \in UiTopics, l \in Languages, p \in SliderSizes,
          s \in SortBys :
            AppRun(b, t, l, p, s, Outcomes)

Spec == Init /\ [][Next]_vars

(* The clock advances; the upstream answers in one of four ways.           *)
CacheOutcomes ==
    { Upstream("Timeout", 0, NoBody),
      Upstream("none", 429, NoBody),
      Upstream("none", 200, Body("object", "", "ok", <<>>, "", "")) }
    \cup { Upstream("none", 200, Body("object", "", "ok", <<a>>, "", "")) :
            a \in ArticlePool }

NextCache ==
    \/ \E t \in Topics, l \in Languages, p \in PageSizes, s \in SortBys :
            CallFetchNews(t, l, p, s, CacheOutcomes)
    \/ \E b \in BOOLEAN, t \in UiTopics, l \in Languages, p \in SliderSizes,
          s \in SortBys :
            AppRun(b, t, l, p, s, CacheOutcomes)
    \/ Tick

SpecCache == Init /\ [][NextCache]_vars

(* VADER's compound score lies in [-1, 1]: -100..100 in hundredths.        *)
CompoundScores == -100..100

AnalyzeInputs ==
    {PyNone, PyInt, EmptyStr, BlankStr, Poison} \cup {Words(c) : c \in CompoundScores}

(* A caller invokes analyze_sentiment_vader(text). *)
CallAnalyze(text) ==
    /\ scored' = analyze_sentiment_vader(text, analyzer)
    /\ analyzer' = analyze_sentiment_vader(text, analyzer).an
    /\ UNCHANGED <<NEWSAPI_KEY, now, cache, computed, call, ret, ui, lexicon, formatted, run>>
    /\ UNCHANGED intel

SentimentOutcomes ==
    { Upstream("none", 200, Body("object", "", "ok", <<a>>, "", "")) : a \in ArticlePool }

(* Direct calls of the scorer, and dashboard runs that score a batch with  *)
(* the same analyzer store.                                                *)
NextSentiment ==
    \/ \E text \in AnalyzeInputs : CallAnalyze(text)
    \/ \E b \in BOOLEAN, t \in UiTopics, l \in Languages, p \in SliderSizes,
          s \in SortBys :
            AppRun(b, t, l, p, s, SentimentOutcomes)

SpecSentiment == Init /\ [][NextSentiment]_vars

(* Articles of a batch: well formed with a positive, a negative and no     *)
(* description, one whose source is null and one whose publishedAt is a    *)
(* number.                                                                 *)
BatchPool ==
    ArticlePool \cup
    { Article("t3", Words(-62), "CNN", IsoDate),
      Article("t4", Words(59), "None", IsoDate),
      Article("t5", Words(-62), "CNN", IntValue) }

BatchOutcomes ==
    { Upstream("none", 200, Body("object", "", "ok", as, "", "")) :
        as \in SeqsUpTo(BatchPool, MaxArticles) }

(* Dashboard runs over time, the upstream answering with a batch.          *)
NextBatch ==
    \/ \E b \in BOOLEAN, t \in UiTopics, l \in Languages, p \in SliderSizes,
          s \in SortBys :
            AppRun(b, t, l, p, s, BatchOutcomes)
    \/ Tick

SpecBatch == Init /\ [][NextBatch]_vars

(* Strings as pieces, no two runs of other characters next to each other.  *)
Pieces == {"T", "2024-01-15", "10:30:00Z", "not-a-date"}

DateStrings ==
    { p \in SeqsUpTo(Pieces, MaxPieces) :
        \A i \in 1..(Len(p) - 1) : p[i] = "T" \/ p[i + 1] = "T" }

(* What article.get('publishedAt') can hand over: None when the key is     *)
(* absent or null, a string, or another JSON value.                        *)
DateInputs == {NoneValue, IntValue, ZeroValue} \cup {PyStr(p) : p \in DateStrings}

(* A caller invokes format_datetime(date_string). *)
CallFormat(date_string) ==
    /\ formatted' = [arg |-> date_string, called |-> TRUE,
                     value |-> format_datetime(date_string).value,
                     raised |-> format_datetime(date_string).raised,
                     parsed |-> format_datetime(date_string).parsed]
    /\ UNCHANGED <<NEWSAPI_KEY, now, cache, computed, call, ret, ui, lexicon, analyzer,
                   scored, run>>
    /\ UNCHANGED intel

NextDatetime == \E d \in DateInputs : CallFormat(d)

SpecDatetime == Init /\ [][NextDatetime]_vars

(* AnalysisResult(article_count=..., avg_sentiment=..., topics=...): the   *)
(* other fields take their defaults; created_at is datetime.now().         *)
NewAnalysisResult(article_count, avg_sentiment, topics) ==
    /\ result' = AnalysisResult(article_count, avg_sentiment, topics, <<>>, <<>>, now)
    /\ insightCall' = NoInsight
    /\ UNCHANGED <<found, scraped, selected_topic, sidebar>>
    /\ UNCHANGED dash

(* result.add_insight(x) *)
AddInsight(x) ==
    /\ Len(result.insights) < MaxInsights
    /\ result' = add_insight(result, x)
    /\ insightCall' = [called |-> TRUE, arg |-> x, before |-> result]
    /\ UNCHANGED <<found, scraped, selected_topic, sidebar>>
    /\ UNCHANGED dash

InsightTexts == {"Test insight", "AI funding is up"}

NextInsight ==
    \/ \E n \in {0, 10}, a \in {0, 50}, t \in {<<>>, <<"ai", "tech">>} :
            NewAnalysisResult(n, a, t)
    \/ \E x \in InsightTexts : AddInsight(x)

SpecInsight == Init /\ [][NextInsight]_vars

(* A caller invokes search_news(query, max_results, time_range). *)
CallSearchNews(query, max_results, time_range) ==
    /\ found' = [called |-> TRUE, query |-> query, max_results |-> max_results,
                 time_range |-> time_range,
                 articles |-> search_news(query, max_results, time_range)]
    /\ UNCHANGED <<result, insightCall, scraped, selected_topic, sidebar>>
    /\ UNCHANGED dash

Queries == {"artificial intelligence", "robotics", ""}
MaxResultsValues == {0, 1, 5, 10}
TimeRanges == {"24h", "7d", "30d"}

NextSearch ==
    \E q \in Queries, n \in MaxResultsValues, t \in TimeRanges : CallSearchNews(q, n, t)

SpecSearch == Init /\ [][NextSearch]_vars

(* A caller invokes batch_scrape(urls, max_concurrent). *)
CallBatchScrape(urls, max_concurrent) ==
    /\ scraped' = [called |-> TRUE, urls |-> urls, max_concurrent |-> max_concurrent,
                   articles |-> batch_scrape(urls, max_concurrent).articles,
                   raised |-> batch_scrape(urls, max_concurrent).raised]
    /\ UNCHANGED <<result, insightCall, found, selected_topic, sidebar>>
    /\ UNCHANGED dash

Urls == {"https://a.example/1", "https://b.example/2", "not a url"}
MaxConcurrents == {-1, 0, 1, 2, 5}

NextScrape ==
    \E urls \in SeqsUpTo(Urls, MaxUrls), n \in MaxConcurrents : CallBatchScrape(urls, n)

SpecScrape == Init /\ [][NextScrape]_vars

(* One rerun of the prototype: the text input holds `text`, and the quick  *)
(* topic button number `clicked` was clicked (0: none was).                *)
RenderSidebar(text, clicked) ==
    LET selected == IF clicked # 0 THEN SAMPLE_TOPICS[clicked] ELSE selected_topic  \* 451-455
        topic == IF selected # Unset THEN selected ELSE text                        \* 458-459
    IN  /\ selected_topic' = selected
        /\ sidebar' = [called |-> TRUE, text |-> text, clicked |-> clicked, topic |-> topic]
        /\ UNCHANGED <<result, insightCall, found, scraped>>
        /\ UNCHANGED dash

TextInputs == {"artificial intelligence", "climate", ""}

NextSidebar ==
    \E text \in TextInputs, clicked \in 0..Len(SAMPLE_TOPICS) : RenderSidebar(text, clicked)

SpecSidebar == Init /\ [][NextSidebar]_vars

----------------------------------------------------------------------------
(* Properties *)

Called == call.args # NoCall.args

(* The latest invocation ran the function body and issued a request that   *)
(* the upstream answered with `call.up`.                                   *)
Requested == Called /\ ~call.hit /\ call.requests >= 1

ConfigErrorResult == Result(<<>>, <<Msg("ConfigError_NoApiKey", 0, "", "")>>)

(* C1: whatever fetch_news returns, for any arguments and any outcome of   *)
(* the upstream request, articles and errors are never both non-empty.     *)
C1_NeverBothNonEmpty ==
    ~(ret.articles # <<>> /\ ret.errors # <<>>)

C1_Witness ==
    /\ Requested
    /\ call.up.status = 200
    /\ ret.articles # <<>>
    /\ ret.errors = <<>>

(* The upstream answered HTTP 200, status "ok", no articles. *)
ZeroResults ==
    /\ Requested
    /\ call.up.exc = "none"
    /\ call.up.status = 200
    /\ call.up.body.kind = "object"
    /\ call.up.body.status = "ok"
    /\ call.up.body.articles = <<>>

(* C2: when the upstream answers HTTP 200 with status "ok" and zero        *)
(* articles, the dashboard run shows the informational 'no news articles   *)
(* found' message and renders no st.error banner.                          *)
C2_ZeroResultsShownAsInfo ==
    (ui.fetched /\ ZeroResults) =>
        /\ ui.error = <<>>
        /\ ui.info = <<Msg("NoNewsFound", 0, call.args[1], call.args[2])>>

(* C3 as stated: a call made less than 1800 s after the function body ran  *)
(* for the same argument tuple is served from the cache, returns the value *)
(* that run returned, and the two calls issued exactly one request.        *)
C3_ExactlyOneRequest ==
    (Called /\ call.since >= 0 /\ call.since < TTL) =>
        /\ call.hit
        /\ ret = computed[call.args].value
        /\ computed[call.args].requests + call.requests = 1

(* C3 amended: such a call is served from the cache, issues no request     *)
(* and returns the value the first call returned; the two calls issued     *)
(* one request when a credential is configured and none when it is not.    *)
(* No call issues more than one request, and none is issued for a tuple    *)
(* less than 1800 s after the previous request for that tuple.             *)
C3_NoSecondRequestInWindow ==
    /\ (Called /\ call.since >= 0 /\ call.since < TTL) =>
        /\ call.hit
        /\ call.requests = 0
        /\ ret = computed[call.args].value
        /\ computed[call.args].requests = IF Truthy(NEWSAPI_KEY) THEN 1 ELSE 0
    /\ call.requests <= 1
    /\ call.requests = 1 => (call.since = -1 \/ call.since >= TTL)

C3_Witness ==
    /\ Called
    /\ call.hit
    /\ call.since > 0
    /\ call.since < TTL
    /\ computed[call.args].requests = 1
    /\ ret.articles # <<>>
    /\ \E k \in Keys : k # call.args /\ computed[k].requests = 1

(* C4: fetch_news never raises; whatever the upstream does, it returns     *)
(* the pair (articles, errors).                                            *)
C4_NeverRaises ==
    /\ call.raised = "none"
    /\ DOMAIN ret = {"articles", "errors"}

C4_Witness ==
    /\ Requested
    /\ call.up.status = 200
    /\ call.up.body.kind = "list"
    /\ ret = Result(<<>>, <<Msg("UnexpectedError", 0, "AttributeError", "")>>)

(* The upstream call failed at the transport or API level. *)
UpstreamFailed ==
    /\ Requested
    /\ \/ call.up.exc # "none"
       \/ call.up.status # 200
       \/ call.up.body.kind \in {"notjson", "list"}
       \/ call.up.body.kind = "object" /\ call.up.body.status # "ok"

(* C5: after a timeout, a connection failure, another network exception,   *)
(* an HTTP 200 whose body does not parse, an HTTP 200 whose status flag    *)
(* is not "ok", or any other HTTP status, articles is empty and errors     *)
(* holds exactly one message.                                              *)
C5_FailureGivesOneError ==
    UpstreamFailed => (ret.articles = <<>> /\ Len(ret.errors) = 1)

C5_Witness ==
    /\ UpstreamFailed
    /\ call.up.body.kind = "notjson"
    /\ call.up.body.derr = "requests.JSONDecodeError"
    /\ ret = Result(<<>>, <<Msg("NetworkError", 0, "requests.JSONDecodeError", "")>>)

(* C6: with NEWSAPI_KEY absent or empty, fetch_news issues no request and  *)
(* returns empty articles with the one configuration-error message.        *)
C6_NoKeyNoRequest ==
    (NEWSAPI_KEY \in {"None", ""}) =>
        /\ call.requests = 0
        /\ \A k \in Keys : computed[k].requests = 0
        /\ Called => ret = ConfigErrorResult

C6_Witness ==
    /\ NEWSAPI_KEY = ""
    /\ Called
    /\ ~call.hit
    /\ ret = ConfigErrorResult

(* C7: the pageSize sent upstream is min(page_size, 100): the requested    *)
(* value when it is at most 100, and 100 above that.                       *)
C7_PageSizeClamped ==
    Requested =>
        /\ call.sent.pageSize <= 100
        /\ call.sent.pageSize = IF call.args[3] <= 100 THEN call.args[3] ELSE 100

C7_Witness ==
    /\ Requested
    /\ call.args[3] = 500
    /\ call.sent.pageSize = 100

(* C9: for every HTTP status other than 200, articles is empty and errors  *)
(* is the one message of the status class: 400, 401 (invalid API key),     *)
(* 429, 500 and above (with the code), any other (with code and reason).   *)
C9_StatusMessage ==
    (Requested /\ call.up.exc = "none" /\ call.up.status # 200) =>
        LET st == call.up.status
        IN  /\ ret.articles = <<>>
            /\ Len(ret.errors) = 1
            /\ ret.errors[1].kind =
                 (CASE st = 400 -> "Api400_InvalidRequestParameters"
                    [] st = 401 -> "Api401_InvalidApiKey"
                    [] st = 429 -> "Api429_TooManyRequests"
                    [] st \notin {400, 401, 429} /\ st >= 500 -> "ApiServerError"
                    [] OTHER -> "HttpError")
            /\ st \notin {400, 401, 429} => ret.errors[1].code = st

C9_Witness ==
    /\ Requested
    /\ call.up.status = 401
    /\ ret = Result(<<>>, <<Msg("Api401_InvalidApiKey", 0, "", "")>>)

(* C10: for an HTTP 200 answer whose body has a status flag other than     *)
(* "ok", with code X and message Y, articles is empty and errors is one    *)
(* message that embeds X and Y.                                            *)
C10_ApiErrorEmbedsCodeAndMessage ==
    (Requested /\ call.up.exc = "none" /\ call.up.status = 200
        /\ call.up.body.kind = "object" /\ call.up.body.status # "ok") =>
        /\ ret.articles = <<>>
        /\ Len(ret.errors) = 1
        /\ ret.errors[1].kind = "NewsApiError"
        /\ ret.errors[1].a = call.up.body.code
        /\ ret.errors[1].b = call.up.body.message

C10_Witness ==
    /\ Requested
    /\ call.up.status = 200
    /\ call.up.body.status = "error"
    /\ call.up.body.code = "apiKeyInvalid"
    /\ ret = Result(<<>>, <<Msg("NewsApiError", 0, "apiKeyInvalid", "bad key")>>)

(* C11: when the upstream answers HTTP 200 with status "ok" and at least   *)
(* one article, fetch_news returns exactly the articles of the answer,     *)
(* the same records in the same order, and an empty errors list.           *)
C11_ArticlesReturnedVerbatim ==
    (/\ Requested
     /\ call.up.exc = "none"
     /\ call.up.status = 200
     /\ call.up.body.kind = "object"
     /\ call.up.body.status = "ok"
     /\ call.up.body.articles # <<>>) =>
        /\ call.raised = "none"
        /\ ret.articles = call.up.body.articles
        /\ ret.errors = <<>>

C11_Witness ==
    /\ Requested
    /\ call.up.status = 200
    /\ call.up.body.status = "ok"
    /\ Len(call.up.body.articles) = 2
    /\ call.up.body.articles[1] # call.up.body.articles[2]
    /\ ret.articles = call.up.body.articles
    /\ ret.errors = <<>>

(* C12: an invocation that is not served from the cache issues at most     *)
(* one HTTP request; a failed request is not issued again.                 *)
C12_AtMostOneRequest ==
    (Called /\ ~call.hit) => call.requests <= 1

C12_Witness ==
    /\ Called
    /\ ~call.hit
    /\ call.up.exc = "Timeout"
    /\ call.requests = 1
    /\ ret = Result(<<>>, <<Msg("Timeout", 0, "", "")>>)

(* C13 as stated: a call made more than 1800 s after the function body     *)
(* last ran for the same argument tuple is not served the stale entry; it  *)
(* issues a new request and recomputes.                                    *)
C13_ExpiredIssuesRequest ==
    (Called /\ call.since > TTL) =>
        /\ ~call.hit
        /\ call.requests = 1

(* C13 amended: such a call is not served the stale entry; the function    *)
(* body runs again and its result replaces the entry, issuing one new      *)
(* request when a credential is configured and none when it is not.        *)
C13_ExpiredRecomputes ==
    (Called /\ call.since > TTL) =>
        /\ ~call.hit
        /\ call.requests = IF Truthy(NEWSAPI_KEY) THEN 1 ELSE 0
        /\ cache[call.args].value = ret

C13_Witness ==
    /\ Called
    /\ call.since > TTL
    /\ ~call.hit
    /\ call.requests = 1
    /\ cache[call.args].storedAt = now
    /\ ret.articles # <<>>

(* analyze_sentiment_vader has been called and has returned a pair. *)
Returned == scored # NoScored /\ scored.raised = "none"

(* C14: for every pair (label, score) analyze_sentiment_vader returns, on  *)
(* the empty-input and analyzer-fault paths too, the label is positive iff *)
(* score >= 0.05, negative iff score <= -0.05 and neutral otherwise.       *)
C14_LabelIsFunctionOfScore ==
    Returned =>
        /\ scored.label \in Labels
        /\ scored.label = "Olumlu" <=> scored.score >= 5
        /\ scored.label = "Olumsuz" <=> scored.score <= -5
        /\ scored.label = "Notr" <=> (scored.score > -5 /\ scored.score < 5)

C14_Witness ==
    /\ Returned
    /\ scored.invoked
    /\ scored.score = 5
    /\ scored.label = "Olumlu"

(* C15: analyze_sentiment_vader never propagates a fault of the analyzer,  *)
(* raised at construction or while scoring: the call returns (neutral,     *)
(* 0.0) instead of raising.                                                *)
C15_NeverPropagates ==
    /\ scored.raised = "none"
    /\ (scored # NoScored /\ (scored.warned \/ (scored.looked /\ ~lexicon))) =>
            (scored.label = "Notr" /\ scored.score = 0)

(* C16: for input that is no string, is empty or is whitespace only, the   *)
(* call returns (neutral, 0.0), and it neither constructs nor invokes the  *)
(* analyzer.                                                               *)
C16_NoTextNoAnalyzer ==
    (scored # NoScored /\ scored.text \in {PyNone, PyInt, EmptyStr, BlankStr}) =>
        /\ scored.raised = "none"
        /\ scored.label = "Notr"
        /\ scored.score = 0
        /\ ~scored.looked
        /\ ~scored.constructed
        /\ ~scored.invoked

C16_Witness ==
    /\ scored # NoScored
    /\ scored.text = BlankStr
    /\ scored.label = "Notr"
    /\ lexicon
    /\ analyzer = NoAnalyzer

(* C17: across any sequence of calls within one process the analyzer is    *)
(* constructed at most once, and every call that invokes an analyzer       *)
(* invokes that one instance.                                              *)
C17_OneAnalyzer ==
    /\ analyzer.constructions <= 1
    /\ scored.invoked => (scored.instance = 1 /\ analyzer.id = 1)
    /\ scored.constructed => analyzer.constructions = 1

C17_Witness ==
    /\ scored.invoked
    /\ ~scored.constructed
    /\ scored.instance = 1
    /\ analyzer.constructions = 1
    /\ ui.sentiments # <<>>

(* The article has description text: a string that is not empty. *)
DescribedText(article) == article.description.kind \in {"blank", "words"}

(* The articles of the latest batch that have description text. *)
Described == {i \in DOMAIN ret.articles : DescribedText(ret.articles[i])}

(* The label the thresholds give the article's description. *)
LabelOf(article) ==
    IF article.description.kind # "words" \/ article.description.faulty THEN "Notr"
    ELSE IF article.description.compound >= 5 THEN "Olumlu"
    ELSE IF article.description.compound <= -5 THEN "Olumsuz"
    ELSE "Notr"

(* The count the distribution shows for label l, 0 when it shows none. *)
CountOf(l) ==
    LET S == {c \in ui.counts : c[1] = l}
    IN  IF S = {} THEN 0 ELSE (CHOOSE c \in S : TRUE)[2]

(* C18: in the loop over a batch, a failure while handling one article (an *)
(* analyzer fault, a null source, a publishedAt that is no string) never   *)
(* keeps the other articles from being scored: every article of the batch  *)
(* with description text ends with a sentiment result.                     *)
C18_EveryDescribedArticleScored ==
    (ui.fetched /\ call.raised = "none") =>
        Len(ui.sentiments) = Cardinality(Described)

(* C19: for every fetched batch the distribution maps each label to the    *)
(* number of scored articles carrying it, articles without description     *)
(* text are not scored, and the counts sum to the number of articles of    *)
(* the batch that have description text.                                   *)
C19_CountsSumToDescribed ==
    (ui.fetched /\ call.raised = "none") =>
        /\ \A l \in Labels :
              CountOf(l) = Cardinality({i \in DOMAIN ui.sentiments : ui.sentiments[i] = l})
        /\ Len(ui.sentiments) <= Cardinality(Described)
        /\ CountOf("Olumlu") + CountOf("Olumsuz") + CountOf("Notr")
              = Cardinality(Described)

(* A dashboard run that went through the whole batch shows the exact       *)
(* tally of the batch.                                                     *)
TallyOfCompletedRun ==
    (ui.fetched /\ ui.exception = "none") =>
        /\ \A l \in Labels :
              CountOf(l) = Cardinality({i \in Described : LabelOf(ret.articles[i]) = l})
        /\ CountOf("Olumlu") + CountOf("Olumsuz") + CountOf("Notr")
              = Cardinality(Described)

(* C20: over any sequence of fetches, the distribution shown for a batch   *)
(* is computed from the labels of that batch only; labels and counts of    *)
(* earlier batches are never merged into it.                               *)
C20_DistributionOfThisBatchOnly ==
    ui.distShown =>
        /\ ui.fetched
        /\ ui.counts =
              { <<l, Cardinality({i \in Described : LabelOf(ret.articles[i]) = l})>> :
                  l \in {LabelOf(ret.articles[i]) : i \in Described} }
        /\ Len(ui.sentiments) = Cardinality(Described)

C20_Witness ==
    /\ ui.distShown
    /\ call.since > 0
    /\ ~call.hit
    /\ ui.counts = {<<"Olumsuz", 1>>}
    /\ cache[call.args].value = ret

(* C21: format_datetime never raises: for every value the script can pass  *)
(* it (absent, empty, parseable, unparseable, or a publishedAt that is no  *)
(* string) it returns a string.                                            *)
C21_FormatNeverRaises ==
    formatted.called =>
        /\ formatted.raised = "none"
        /\ formatted.value.kind = "str"

(* The index of the first "T" of p, Len(p) + 1 when it has none. *)
FirstT(p) ==
    IF \E i \in DOMAIN p : p[i] = "T"
    THEN CHOOSE i \in DOMAIN p : p[i] = "T" /\ \A j \in 1..(i - 1) : p[j] # "T"
    ELSE Len(p) + 1

(* format_datetime was called with a non-empty string that does not parse. *)
Unparseable ==
    /\ formatted.called
    /\ formatted.arg.kind = "str"
    /\ formatted.arg.pieces # <<>>
    /\ formatted.arg.pieces \notin IsoParseable

(* C22: for every non-empty string that does not parse as ISO-8601,        *)
(* format_datetime returns what precedes the first 'T', the whole string   *)
(* when it holds no 'T'.                                                   *)
C22_PrefixBeforeFirstT ==
    Unparseable =>
        /\ formatted.raised = "none"
        /\ formatted.value.kind = "str"
        /\ formatted.value.pieces =
              SubSeq(formatted.arg.pieces, 1, FirstT(formatted.arg.pieces) - 1)
        /\ (\A i \in DOMAIN formatted.arg.pieces : formatted.arg.pieces[i] # "T")
              => formatted.value = formatted.arg

C22_Witness ==
    /\ Unparseable
    /\ formatted.arg.pieces = <<"not-a-date", "T", "10:30:00Z">>
    /\ formatted.value.pieces = <<"not-a-date">>

(* C23: for None and for the empty string format_datetime returns the      *)
(* fixed placeholder and attempts no parsing.                              *)
C23_PlaceholderForNoDate ==
    (formatted.called /\ formatted.arg \in {NoneValue, PyStr(<<>>)}) =>
        /\ formatted.raised = "none"
        /\ formatted.value = PyStr(<<"T", "arih Yok">>)
        /\ ~formatted.parsed

C23_Witness ==
    /\ formatted.called
    /\ formatted.arg = PyStr(<<>>)
    /\ formatted.value = PyStr(<<"T", "arih Yok">>)
    /\ ~formatted.parsed

(* C24: the dashboard calls fetch_news only in a run where the button was  *)
(* clicked and the topic is not empty, never with an empty topic; a run    *)
(* with an empty topic shows 'please enter a topic' instead.               *)
C24_FetchOnlyWhenClickedWithTopic ==
    run.script =>
        /\ Called <=> (run.search_button /\ run.topic # "")
        /\ ui.fetched <=> Called
        /\ Called => (call.args[1] = run.topic /\ call.args[1] # "")
        /\ run.topic = "" =>
              (ui.info = <<Msg("PleaseEnterTopic", 0, "", "")>> /\ ui.error = <<>>)

C24_Witness ==
    /\ run.script
    /\ run.search_button
    /\ run.topic = ""
    /\ ~Called
    /\ ui.info = <<Msg("PleaseEnterTopic", 0, "", "")>>

(* C25: add_insight(x) appends x as the last element of insights, which    *)
(* grows by one with the earlier insights kept in order, and leaves the    *)
(* other fields of the result unchanged, over any sequence of calls.       *)
C25_AddInsightAppends ==
    insightCall.called =>
        /\ Len(result.insights) = Len(insightCall.before.insights) + 1
        /\ result.insights[Len(result.insights)] = insightCall.arg
        /\ \A i \in DOMAIN insightCall.before.insights :
              result.insights[i] = insightCall.before.insights[i]
        /\ result.article_count = insightCall.before.article_count
        /\ result.avg_sentiment = insightCall.before.avg_sentiment
        /\ result.topics = insightCall.before.topics
        /\ result.raw_articles = insightCall.before.raw_articles
        /\ result.created_at = insightCall.before.created_at

C25_Witness ==
    /\ insightCall.called
    /\ result.insights = <<"Test insight", "AI funding is up">>
    /\ insightCall.arg = "AI funding is up"
    /\ result.article_count = 10
    /\ result.topics = <<"ai", "tech">>

(* C26: search_news(query, max_results) returns at most max_results        *)
(* articles, for every max_results, 0 included.                            *)
C26_AtMostMaxResults ==
    found.called => Len(found.articles) <= found.max_results

(* The URLs of urls that scrape successfully, in input order. *)
Scrapable(urls) == SelectSeq(urls, LAMBDA u : u # "not a url")

(* C27: batch_scrape(urls, max_concurrent) returns one article for every   *)
(* URL that scrapes successfully, in input order; max_concurrent never     *)
(* makes it drop the URLs after the first max_concurrent.                  *)
C27_NoUrlDropped ==
    scraped.called =>
        /\ scraped.raised = "none"
        /\ Len(scraped.articles) = Len(Scrapable(scraped.urls))
        /\ \A i \in DOMAIN scraped.articles :
              scraped.articles[i].url = Scrapable(scraped.urls)[i]

(* C28: failure outcomes are memoized like successes: after a call that    *)
(* ended in an error result, every call with the same tuple within the     *)
(* following 1800 s returns that error result and issues no request.       *)
C28_FailuresMemoized ==
    (/\ Called
     /\ call.since >= 0
     /\ call.since < TTL
     /\ computed[call.args].value.errors # <<>>) =>
        /\ call.hit
        /\ call.requests = 0
        /\ ret = computed[call.args].value

C28_Witness ==
    /\ Called
    /\ call.hit
    /\ call.since > 0
    /\ call.since < TTL
    /\ computed[call.args].requests = 1
    /\ ret = Result(<<>>, <<Msg("Timeout", 0, "", "")>>)

(* C29: for every scored article the emoji and the chart colour agree with *)
(* the label: positive (score >= 0.05) with the positive emoji and green,  *)
(* negative (score <= -0.05) with the negative emoji and red, and only     *)
(* neutral with the neutral emoji and grey.                                *)
C29_EmojiAndColourAgreeWithLabel ==
    /\ Len(ui.emojis) = Len(ui.sentiments)
    /\ \A i \in DOMAIN ui.sentiments :
          ui.emojis[i] =
              IF ui.sentiment_scores[i] >= 5 THEN "slightly smiling face"
              ELSE IF ui.sentiment_scores[i] <= -5 THEN "angry face"
              ELSE "neutral face"
    /\ \A c \in ui.colors :
          c[2] = CASE c[1] = "Olumlu" -> "green"
                   [] c[1] = "Olumsuz" -> "red"
                   [] OTHER -> "grey"

(* C30: over any sequence of reruns the topic render_sidebar returns is a  *)
(* quick-topic value only in a run where that button was clicked; in every *)
(* other run it is the current value of the text input.                    *)
C30_QuickTopicOnlyWhenClicked ==
    sidebar.called =>
        sidebar.topic = IF sidebar.clicked # 0
                        THEN SAMPLE_TOPICS[sidebar.clicked]
                        ELSE sidebar.text

====
